---- MODULE Spec2Model ----
(***************************************************************************)
(* Model of src/PAGridCustomizer/components/ImageWithZoom.tsx: the         *)
(* module-level zoom coordinator state (currentZoomedSrc,                  *)
(* currentZoomSetShowZoom, portalRootElement), the ImageWithZoom           *)
(* component instances (anchors) with their React state, effects and       *)
(* event handlers, the document-level click listeners registered by        *)
(* handleClick, and the placement arithmetic of calculateZoomPosition.     *)
(*                                                                         *)
(* React scheduling: an event handler runs to completion; the state        *)
(* updates it queued are rendered and the effects whose dependencies       *)
(* changed run afterwards (RunEffects).  React flushes pending effects     *)
(* before it handles the next discrete event, so the user and host events  *)
(* below are enabled only when no effect is pending (Quiescent).           *)
(***************************************************************************)
EXTENDS Integers, FiniteSets, TLC

\* ---------------------------------------------------------------- bounds
NumAnchors == 2     \* anchor slots (grid cells) that can hold an ImageWithZoom
MaxHandlers == 2    \* registration timers + document listeners outstanding at once

Anchors == 1..NumAnchors
Srcs == {"k1", "k2"}
NULL == "null"
NoAnchor == 0            \* no slot
NoSetter == NoAnchor     \* the null of line 16

VARIABLES
  currentZoomedSrc,        \* line 15
  currentZoomSetShowZoom,  \* line 16: the slot whose instance's setShowZoom was stored
  setterLive,              \* the instance that owns the stored setter is still mounted
  portalRootElement,       \* line 17: TRUE once the portal root exists
  portalsCreated,          \* number of portal root elements appended to the document
  mounted,                 \* [Anchors -> BOOLEAN]
  src,                     \* [Anchors -> Srcs \cup {NULL}] the src prop
  showZoom,                \* [Anchors -> BOOLEAN] useState(false), line 48
  portalRoot,              \* [Anchors -> BOOLEAN] useState(null), line 49: set by the mount effect
  depShow,                 \* showZoom seen by the last run of the [showZoom, src] effect
  depSrc,                  \* src seen by the last run of the [src] effects
  timers,                  \* [Anchors -> Nat] pending setTimeout callbacks of handleClick
  listeners,               \* [Anchors -> Nat] registered handleGlobalClick closures
  staleTimers,             \* pending timers of unmounted instances
  staleListeners,          \* registered listeners of unmounted instances
  ev,                      \* history: the last user or host event
  closeCalls,              \* history: currentZoomSetShowZoom(false) calls per slot since ev
  imageRect,               \* placement: anchor rectangle, or NoRect when imageRef is unset
  zoomOffset,              \* placement: offsetWidth/offsetHeight of #zoom-container (0: not rendered)
  viewport,                \* placement: window.innerWidth / innerHeight
  zoomPosition,            \* placement: the last result of calculateZoomPosition (tenths of px)
  imageSize,               \* useState({width: 0, height: 0}), line 50: the natural size
  zoomDimensions           \* line 234: the last result of calculateZoomDimensions (rationals)

coordVars == <<currentZoomedSrc, currentZoomSetShowZoom>>
portalVars == <<portalRootElement, portalsCreated>>
compVars == <<mounted, setterLive, src, showZoom, portalRoot, depShow, depSrc>>
handlerVars == <<timers, listeners, staleTimers, staleListeners>>
histVars == <<ev, closeCalls>>
placeVars == <<imageRect, zoomOffset, viewport, zoomPosition, imageSize, zoomDimensions>>
vars == <<coordVars, portalVars, compVars, handlerVars, histVars, placeVars>>

\* ---------------------------------------------------------------- helpers
Max(x, y) == IF x >= y THEN x ELSE y

RECURSIVE SumOver(_, _)
SumOver(f, S) == IF S = {} THEN 0
                 ELSE LET x == CHOOSE y \in S : TRUE IN f[x] + SumOver(f, S \ {x})

\* timers and listeners that exist, of mounted and of unmounted instances
Outstanding == SumOver(timers, Anchors) + SumOver(listeners, Anchors)
               + staleTimers + staleListeners

\* The stored setter is the setShowZoom of the instance now mounted in slot a
\* (a remount of the slot is a new instance, with a new setter).
StoredIs(a) == currentZoomSetShowZoom = a /\ setterLive

\* a setShowZoom call on the instance mounted in slot a: a state update
setShowZoom(sz, a, v) == [sz EXCEPT ![a] = v]

\* currentZoomSetShowZoom(false): a state update of the instance that owns the
\* stored setter; nothing when that instance is unmounted
callStored(sz) == IF setterLive THEN setShowZoom(sz, currentZoomSetShowZoom, FALSE) ELSE sz

\* an effect of anchor a has not run yet for the current state and props
Pending(a) == /\ mounted[a]
              /\ \/ ~portalRoot[a]
                 \/ showZoom[a] # depShow[a]
                 \/ src[a] # depSrc[a]

Quiescent == \A a \in Anchors : ~Pending(a)

\* the anchor whose preview is the active one: shown, its src the active key,
\* its setter the stored close callback
Owner == IF \E a \in Anchors : /\ mounted[a] /\ showZoom[a]
                               /\ currentZoomedSrc = src[a]
                               /\ StoredIs(a)
         THEN CHOOSE a \in Anchors : /\ mounted[a] /\ showZoom[a]
                                     /\ currentZoomedSrc = src[a]
                                     /\ StoredIs(a)
         ELSE NoAnchor

NoCalls == [a \in Anchors |-> 0]
Event(op, a, fired) == [op |-> op, a |-> a, owner |-> Owner, fired |-> fired, shown |-> {}]

\* ---------------------------------------------------------------- initial state
NoRect == [top |-> 0, left |-> 0, width |-> 0, set |-> FALSE]
NoPosition == [top |-> 0 - 1, left |-> 0 - 1]
NoSize == [width |-> 0, height |-> 0]
NoDimensions == [width |-> [n |-> 0, d |-> 1], height |-> [n |-> 0, d |-> 1]]

InitCore ==
  /\ currentZoomedSrc = NULL
  /\ currentZoomSetShowZoom = NoSetter
  /\ portalRootElement = FALSE
  /\ portalsCreated = 0
  /\ mounted = [a \in Anchors |-> FALSE]
  /\ setterLive = FALSE
  /\ src = [a \in Anchors |-> NULL]
  /\ showZoom = [a \in Anchors |-> FALSE]
  /\ portalRoot = [a \in Anchors |-> FALSE]
  /\ depShow = [a \in Anchors |-> FALSE]
  /\ depSrc = [a \in Anchors |-> NULL]
  /\ timers = [a \in Anchors |-> 0]
  /\ listeners = [a \in Anchors |-> 0]
  /\ staleTimers = 0
  /\ staleListeners = 0
  /\ ev = [op |-> "Init", a |-> NoAnchor, owner |-> NoAnchor, fired |-> {}, shown |-> {}]
  /\ closeCalls = NoCalls

Init ==
  /\ InitCore
  /\ imageRect = NoRect
  /\ zoomOffset = [w |-> 0, h |-> 0]
  /\ viewport = [w |-> 0, h |-> 0]
  /\ zoomPosition = NoPosition
  /\ imageSize = NoSize
  /\ zoomDimensions = NoDimensions

\* ---------------------------------------------------------------- host events
\* The grid renders an ImageWithZoom with src s in slot a (first render: every
\* useState at its initial value; the effects of the first commit are pending).
Mount(a, s) ==
  /\ Quiescent
  /\ ~mounted[a]
  /\ mounted' = [mounted EXCEPT ![a] = TRUE]
  /\ src' = [src EXCEPT ![a] = s]
  /\ showZoom' = [showZoom EXCEPT ![a] = FALSE]
  /\ portalRoot' = [portalRoot EXCEPT ![a] = FALSE]
  /\ depShow' = [depShow EXCEPT ![a] = FALSE]
  /\ depSrc' = [depSrc EXCEPT ![a] = NULL]
  /\ ev' = Event("Mount", a, {})
  /\ closeCalls' = NoCalls
  /\ UNCHANGED <<coordVars, setterLive, portalVars, handlerVars, placeVars>>

\* The showZoom the cleanup of the mount effect reads: the effect has deps [], so
\* its closure is the one of the first render, where showZoom is useState's
\* initial value.
MountClosureShowZoom == FALSE

\* cleanup of the mount effect (lines 65-71): the new currentZoomedSrc.  The src
\* it compares with is the one of the same closure; with the closure's showZoom
\* false, && never evaluates the comparison.
unmountCleanup(a) ==
  IF MountClosureShowZoom /\ currentZoomedSrc = src[a]
  THEN NULL
  ELSE currentZoomedSrc

\* The grid removes the ImageWithZoom of slot a.  Its timers and document
\* listeners are not cancelled by any cleanup: they outlive the instance.
Unmount(a) ==
  /\ Quiescent
  /\ mounted[a]
  /\ currentZoomedSrc' = unmountCleanup(a)
  /\ mounted' = [mounted EXCEPT ![a] = FALSE]
  /\ src' = [src EXCEPT ![a] = NULL]
  /\ showZoom' = [showZoom EXCEPT ![a] = FALSE]
  /\ portalRoot' = [portalRoot EXCEPT ![a] = FALSE]
  /\ depShow' = [depShow EXCEPT ![a] = FALSE]
  /\ depSrc' = [depSrc EXCEPT ![a] = NULL]
  /\ staleTimers' = staleTimers + timers[a]
  /\ staleListeners' = staleListeners + listeners[a]
  /\ timers' = [timers EXCEPT ![a] = 0]
  /\ listeners' = [listeners EXCEPT ![a] = 0]
  /\ ev' = Event("Unmount", a, {})
  /\ closeCalls' = NoCalls
  /\ setterLive' = (setterLive /\ currentZoomSetShowZoom # a)
  /\ UNCHANGED <<currentZoomSetShowZoom, portalVars, placeVars>>

\* The grid re-renders slot a with another src (the user navigates between rows).
\* (History: when a's preview is open and s is not the active key, ev.shown
\* keeps the anchors shown before the change.)
SrcChange(a, s) ==
  /\ Quiescent
  /\ mounted[a]
  /\ s # src[a]
  /\ src' = [src EXCEPT ![a] = s]
  /\ ev' = [Event("SrcChange", a, {}) EXCEPT
              !.shown = IF showZoom[a] /\ s # currentZoomedSrc
                        THEN {b \in Anchors : mounted[b] /\ showZoom[b]} ELSE {}]
  /\ closeCalls' = NoCalls
  /\ UNCHANGED <<coordVars, portalVars, mounted, setterLive, showZoom, portalRoot,
                 depShow, depSrc, handlerVars, placeVars>>

\* ---------------------------------------------------------------- user events
\* handleClick (lines 172-207): setShowZoom(true), currentZoomedSrc = src, and a
\* 100 ms timer that will register a document click listener.  (setImagePosition
\* writes imagePosition, which nothing reads.)  handleClickToggle is the variant
\* in which a click on a shown anchor hides it (setShowZoom(!showZoom)).
handleClickToggle(a) ==
  /\ showZoom' = [showZoom EXCEPT ![a] = ~showZoom[a]]
  /\ currentZoomedSrc' = src[a]
  /\ timers' = [timers EXCEPT ![a] = @ + 1]
  /\ UNCHANGED <<currentZoomSetShowZoom, listeners, staleTimers, staleListeners>>

handleClick(a) ==
  /\ showZoom' = [showZoom EXCEPT ![a] = TRUE]
  /\ currentZoomedSrc' = src[a]
  /\ timers' = [timers EXCEPT ![a] = @ + 1]
  /\ UNCHANGED <<currentZoomSetShowZoom, listeners, staleTimers, staleListeners>>

Click(a) ==
  /\ Quiescent
  /\ mounted[a]
  /\ Outstanding < MaxHandlers
  /\ handleClick(a)
  /\ ev' = Event("Click", a, {})
  /\ closeCalls' = NoCalls
  /\ UNCHANGED <<portalVars, mounted, setterLive, src, portalRoot, depShow, depSrc, placeVars>>

\* The Close button and the x button of the preview (lines 333, 356): both
\* setShowZoom(false).  The preview is rendered only when showZoom && portalRoot.
CloseButton(a, b) ==
  /\ Quiescent
  /\ mounted[a] /\ showZoom[a] /\ portalRoot[a]
  /\ showZoom' = [showZoom EXCEPT ![a] = FALSE]
  /\ ev' = Event(b, a, {})
  /\ closeCalls' = NoCalls
  /\ UNCHANGED <<coordVars, portalVars, mounted, setterLive, src, portalRoot, depShow,
                 depSrc, handlerVars, placeVars>>

\* The timer of handleClick fires (lines 192-206): a new handleGlobalClick
\* closure is created; removeEventListener of that new closure removes nothing;
\* addEventListener registers it.  100 ms is long after React has flushed the
\* effects of the click.
TimerFire(a) ==
  /\ Quiescent
  /\ timers[a] > 0
  /\ timers' = [timers EXCEPT ![a] = @ - 1]
  /\ listeners' = [listeners EXCEPT ![a] = @ + 1]
  /\ UNCHANGED <<coordVars, portalVars, compVars, staleTimers, staleListeners,
                 histVars, placeVars>>

\* the same, for a timer whose instance was unmounted meanwhile
StaleTimerFire ==
  /\ Quiescent
  /\ staleTimers > 0
  /\ staleTimers' = staleTimers - 1
  /\ staleListeners' = staleListeners + 1
  /\ UNCHANGED <<coordVars, portalVars, compVars, timers, listeners, histVars,
                 placeVars>>

\* the anchors whose handleGlobalClick closures are registered on the document
Listening == {a \in Anchors : listeners[a] > 0}

\* handleGlobalClick (lines 193-201) of every registered listener, for a click
\* outside every .image-with-zoom-container and outside #zoom-container: each
\* calls its instance's setShowZoom(false) (nothing for an unmounted instance),
\* sets currentZoomedSrc = null and removes itself.
handleGlobalClick ==
  /\ showZoom' = [a \in Anchors |-> IF a \in Listening THEN FALSE ELSE showZoom[a]]
  /\ currentZoomedSrc' = IF Listening # {} \/ staleListeners > 0
                         THEN NULL ELSE currentZoomedSrc
  /\ listeners' = [a \in Anchors |-> 0]
  /\ staleListeners' = 0
  /\ UNCHANGED <<currentZoomSetShowZoom, timers, staleTimers>>

OutsideClick ==
  /\ Quiescent
  /\ handleGlobalClick
  /\ ev' = Event("OutsideClick", NoAnchor, Listening)
  /\ closeCalls' = NoCalls
  /\ UNCHANGED <<portalVars, mounted, setterLive, src, portalRoot, depShow, depSrc, placeVars>>

\* ---------------------------------------------------------------- effects
\* createPortalRoot without the early return of line 21
createPortalRootAlways == portalsCreated + 1

\* createPortalRoot (lines 20-35): the number of portal roots ever appended to
\* the document after the call; the element exists afterwards.
createPortalRoot == IF portalRootElement THEN portalsCreated ELSE portalsCreated + 1

\* The src effect (lines 75-83, deps [src]), reading the showZoom of the render
\* it belongs to: the showZoom states after its setShowZoom call, given sz.
srcEffect(a, sz) ==
  IF currentZoomedSrc = src[a]
  THEN setShowZoom(sz, a, TRUE)
  ELSE IF showZoom[a] THEN setShowZoom(sz, a, FALSE) ELSE sz

\* The zoom-state effect (lines 107-119, deps [showZoom, src]) closes the stored
\* setter's preview exactly when this holds (line 110).
zoomEffectEvicts(a) ==
  /\ showZoom[a]
  /\ currentZoomSetShowZoom # NoSetter
  /\ currentZoomedSrc # src[a]

\* The zoom-state effect: the coordinator state and the showZoom states after it.
zoomEffect(a, sz) ==
  IF showZoom[a]
  THEN [cur |-> src[a], setter |-> a, live |-> TRUE,
        sz |-> IF zoomEffectEvicts(a) THEN callStored(sz) ELSE sz]
  ELSE IF currentZoomedSrc = src[a]
       THEN [cur |-> NULL, setter |-> NoSetter, live |-> FALSE, sz |-> sz]
       ELSE [cur |-> currentZoomedSrc, setter |-> currentZoomSetShowZoom,
             live |-> setterLive, sz |-> sz]

\* React commits the render of anchor a and runs, in declaration order, the
\* effects whose dependencies changed: the mount effect (first commit only), the
\* src effect, the zoom-state effect.  The state updates they queue are rendered
\* by a later commit.
RunEffects(a) ==
  /\ Pending(a)
  /\ LET first == ~portalRoot[a]
         srcDep == first \/ src[a] # depSrc[a]
         zoomDep == srcDep \/ showZoom[a] # depShow[a]
         sz1 == IF srcDep THEN srcEffect(a, showZoom) ELSE showZoom
         z == IF zoomDep THEN zoomEffect(a, sz1)
              ELSE [cur |-> currentZoomedSrc, setter |-> currentZoomSetShowZoom,
                    live |-> setterLive, sz |-> sz1]
         called == zoomDep /\ zoomEffectEvicts(a) /\ setterLive
     IN /\ portalRootElement' = (first \/ portalRootElement)
        /\ portalsCreated' = IF first THEN createPortalRoot ELSE portalsCreated
        /\ portalRoot' = [portalRoot EXCEPT ![a] = TRUE]
        /\ showZoom' = z.sz
        /\ currentZoomedSrc' = z.cur
        /\ currentZoomSetShowZoom' = z.setter
        /\ setterLive' = z.live
        /\ depShow' = [depShow EXCEPT ![a] = showZoom[a]]
        /\ depSrc' = [depSrc EXCEPT ![a] = src[a]]
        /\ closeCalls' = IF called
                         THEN [closeCalls EXCEPT ![currentZoomSetShowZoom] = @ + 1]
                         ELSE closeCalls
  /\ UNCHANGED <<mounted, src, handlerVars, ev, placeVars>>

\* ---------------------------------------------------------------- specification
Next ==
  \/ \E a \in Anchors, s \in Srcs : Mount(a, s)
  \/ \E a \in Anchors : Unmount(a)
  \/ \E a \in Anchors, s \in Srcs : SrcChange(a, s)
  \/ \E a \in Anchors : Click(a)
  \/ \E a \in Anchors, b \in {"Close", "x"} : CloseButton(a, b)
  \/ \E a \in Anchors : TimerFire(a)
  \/ StaleTimerFire
  \/ OutsideClick
  \/ \E a \in Anchors : RunEffects(a)

Spec == Init /\ [][Next]_vars

\* ---------------------------------------------------------------- placement
\* Lengths the inputs are drawn from, in px.  An offset of 0 is the preview
\* container before it has rendered (zoomRef.current unset).
RectTops == {0 - 20, 100, 750}
RectLefts == {0 - 20, 100, 900}
RectWidths == {50}
ZoomOffsets == {0, 200, 300, 1200}
ViewportWidths == {250, 1000}
ViewportHeights == {250, 800}

Margin == 10             \* the 10 px of lines 144, 154, 160, 161, 164
DefaultZoomSize == 280   \* the estimate of lines 148, 149
ShrinkTenths == 7        \* the factor 0.7 of lines 148, 149, in tenths
BaseZoomSize == 400      \* the default dimensions of lines 212, 213
ViewportCapTenths == 8   \* the factor 0.8 of lines 227, 228, in tenths

\* natural widths and heights an image load can report, in px (0: none)
NaturalLengths == {0, 300, 400, 800}

\* Exact rationals n / d (d > 0) for the quotients of calculateZoomDimensions.
Rat(n, d) == [n |-> n, d |-> d]
RatLe(x, y) == x.n * y.d <= y.n * x.d
RatEq(x, y) == x.n * y.d = y.n * x.d
RatMin(x, y) == IF RatLe(x, y) THEN x ELSE y

\* calculateZoomDimensions with the caps of lines 227-228 applied after the if,
\* to the default dimensions too
calculateZoomDimensionsCapAlways(size, window) ==
  LET known == size.width > 0 /\ size.height > 0
      landscape == size.width > size.height
      zoomWidth == IF known /\ ~landscape
                   THEN Rat(BaseZoomSize * size.width, size.height)
                   ELSE Rat(BaseZoomSize, 1)
      zoomHeight == IF known /\ landscape
                    THEN Rat(BaseZoomSize * size.height, size.width)
                    ELSE Rat(BaseZoomSize, 1)
  IN [width |-> RatMin(zoomWidth, Rat(ViewportCapTenths * window.w, 10)),
      height |-> RatMin(zoomHeight, Rat(ViewportCapTenths * window.h, 10))]

\* calculateZoomDimensions with the two aspect branches exchanged
calculateZoomDimensionsSwapped(size, window) ==
  IF size.width > 0 /\ size.height > 0
  THEN LET landscape == size.width > size.height
           zoomWidth == IF landscape THEN Rat(BaseZoomSize * size.width, size.height)
                        ELSE Rat(BaseZoomSize, 1)
           zoomHeight == IF landscape THEN Rat(BaseZoomSize, 1)
                         ELSE Rat(BaseZoomSize * size.height, size.width)
       IN [width |-> RatMin(zoomWidth, Rat(ViewportCapTenths * window.w, 10)),
           height |-> RatMin(zoomHeight, Rat(ViewportCapTenths * window.h, 10))]
  ELSE [width |-> Rat(BaseZoomSize, 1), height |-> Rat(BaseZoomSize, 1)]

\* calculateZoomDimensions (lines 210-232): aspectRatio = width / height; a
\* landscape image (aspectRatio > 1) gets zoomHeight = zoomWidth / aspectRatio,
\* any other zoomWidth = zoomHeight * aspectRatio; then each dimension is capped
\* by 0.8 of the window's.  size and window in px, the result exact rationals.
calculateZoomDimensions(size, window) ==
  IF size.width > 0 /\ size.height > 0
  THEN LET landscape == size.width > size.height
           zoomWidth == IF landscape THEN Rat(BaseZoomSize, 1)
                        ELSE Rat(BaseZoomSize * size.width, size.height)
           zoomHeight == IF landscape THEN Rat(BaseZoomSize * size.height, size.width)
                         ELSE Rat(BaseZoomSize, 1)
       IN [width |-> RatMin(zoomWidth, Rat(ViewportCapTenths * window.w, 10)),
           height |-> RatMin(zoomHeight, Rat(ViewportCapTenths * window.h, 10))]
  ELSE [width |-> Rat(BaseZoomSize, 1), height |-> Rat(BaseZoomSize, 1)]

\* zoomWidth / zoomHeight of lines 148-149, in tenths of a px
zoomExtent(offset) == (IF offset = 0 THEN DefaultZoomSize ELSE offset) * ShrinkTenths

\* calculateZoomPosition (lines 135-169); rect, offset and window in px, the
\* result in tenths of a px
calculateZoomPosition(rect, offset, window) ==
  IF ~rect.set THEN [top |-> 0, left |-> 0]
  ELSE LET zoomWidth == zoomExtent(offset.w)
           zoomHeight == zoomExtent(offset.h)
           windowHeight == 10 * window.h
           windowWidth == 10 * window.w
           rectLeft == 10 * rect.left
           top0 == 10 * rect.top
           left0 == 10 * (rect.left + rect.width) + 10 * Margin
           top == IF top0 + zoomHeight > windowHeight
                  THEN Max(10 * Margin, windowHeight - zoomHeight - 10 * Margin)
                  ELSE top0
           left == IF left0 + zoomWidth > windowWidth
                   THEN IF rectLeft > zoomWidth + 10 * Margin
                        THEN rectLeft - zoomWidth - 10 * Margin
                        ELSE Max(10 * Margin, windowWidth - zoomWidth - 10 * Margin)
                   ELSE left0
       IN [top |-> top, left |-> left]

InitPlace ==
  /\ InitCore
  /\ imageRect \in {NoRect} \cup
       {[top |-> t, left |-> l, width |-> w, set |-> TRUE] :
          t \in RectTops, l \in RectLefts, w \in RectWidths}
  /\ zoomOffset \in {[w |-> ow, h |-> oh] : ow \in ZoomOffsets, oh \in ZoomOffsets}
  /\ viewport \in {[w |-> vw, h |-> vh] : vw \in ViewportWidths, vh \in ViewportHeights}
  /\ zoomPosition = NoPosition
  /\ imageSize = NoSize
  /\ zoomDimensions = NoDimensions

\* The component renders with its preview shown: the style of #zoom-container
\* is computed by calculateZoomPosition (lines 297-298).
RenderZoom ==
  /\ zoomPosition' = calculateZoomPosition(imageRect, zoomOffset, viewport)
  /\ zoomDimensions' = calculateZoomDimensions(imageSize, viewport)
  /\ UNCHANGED <<coordVars, portalVars, compVars, handlerVars, histVars,
                 imageRect, zoomOffset, viewport, imageSize>>

\* The window is resized: updateImagePosition (lines 85-99) sets imagePosition,
\* and the render that follows computes the position again.
Resize(vw, vh) ==
  /\ zoomPosition # NoPosition
  /\ viewport' = [w |-> vw, h |-> vh]
  /\ zoomPosition' = calculateZoomPosition(imageRect, zoomOffset, viewport')
  /\ zoomDimensions' = calculateZoomDimensions(imageSize, viewport')
  /\ UNCHANGED <<coordVars, portalVars, compVars, handlerVars, histVars,
                 imageRect, zoomOffset, imageSize>>

\* The image has loaded (lines 122-132): img.onload stores the natural size, and
\* the render that follows computes the dimensions (line 234) and the position.
ImageLoaded(w, h) ==
  /\ zoomPosition # NoPosition
  /\ imageSize' = [width |-> w, height |-> h]
  /\ zoomPosition' = calculateZoomPosition(imageRect, zoomOffset, viewport)
  /\ zoomDimensions' = calculateZoomDimensions(imageSize', viewport)
  /\ UNCHANGED <<coordVars, portalVars, compVars, handlerVars, histVars,
                 imageRect, zoomOffset, viewport>>

NextPlace ==
  \/ RenderZoom
  \/ \E w \in NaturalLengths, h \in NaturalLengths : ImageLoaded(w, h)
  \/ \E vw \in ViewportWidths, vh \in ViewportHeights : Resize(vw, vh)

SpecPlace == InitPlace /\ [][NextPlace]_vars

\* ================================================================ claims
\* the anchors whose preview is shown
Shown == {a \in Anchors : mounted[a] /\ showZoom[a]}

\* the mounted anchors have pairwise different src values
DistinctSrcs == \A a, b \in Anchors : (mounted[a] /\ mounted[b] /\ a # b) => src[a] # src[b]

\* C1: exclusivity: once the pending effects have run, at most one anchor has
\* showZoom = true.  The claim asserts it whether or not anchors share a src;
\* this is its case of anchors with pairwise different src values.
C1_Exclusivity == (Quiescent /\ DistinctSrcs) => Cardinality(Shown) <= 1

\* C2: eviction on show: after a click on an anchor (key k2) while the preview of
\* another anchor (key k1 # k2, close callback c1) was active, and once the
\* effects have run, c1 has been invoked exactly once, k1's preview is hidden and
\* the coordinator holds k2 and the setter of the clicked anchor.
C2_EvictionOnShow ==
  (/\ Quiescent
   /\ ev.op = "Click"
   /\ ev.owner # NoAnchor /\ ev.owner # ev.a
   /\ mounted[ev.owner] /\ src[ev.owner] # src[ev.a])
  => /\ closeCalls[ev.owner] = 1
     /\ ~showZoom[ev.owner]
     /\ currentZoomedSrc = src[ev.a]
     /\ StoredIs(ev.a)

\* a step that hides the preview of an anchor whose key is not the active key:
\* its Close or x button, its unmount, its outside-click listener, or the hide
\* branch of its zoom-state effect
StaleHideStep ==
  \/ \E a \in Anchors, b \in {"Close", "x"} :
       src[a] # currentZoomedSrc /\ CloseButton(a, b)
  \/ \E a \in Anchors : src[a] # currentZoomedSrc /\ Unmount(a)
  \/ (\E a \in Listening : src[a] # currentZoomedSrc) /\ OutsideClick
  \/ \E a \in Anchors : src[a] # currentZoomedSrc /\ ~showZoom[a] /\ RunEffects(a)

\* C3: safe stale hide: a hide that comes from an anchor whose key is not the
\* active key leaves currentZoomedSrc and currentZoomSetShowZoom unchanged.
C3_SafeStaleHide ==
  [][(currentZoomedSrc # NULL /\ StaleHideStep) => UNCHANGED coordVars]_vars

\* the last event closed the active preview by a close path of its own anchor
ClosedByOwnPath ==
  \/ ev.op \in {"Close", "x"} /\ ev.owner = ev.a
  \/ ev.op = "OutsideClick" /\ ev.owner \in ev.fired

\* C4: hide clears both fields: after the active preview was closed by its own
\* anchor's Close button, x button or outside-click listener, and the effects
\* have run, currentZoomedSrc and currentZoomSetShowZoom are both null.
C4_HideClearsBoth ==
  (Quiescent /\ ClosedByOwnPath)
  => /\ currentZoomedSrc = NULL
     /\ currentZoomSetShowZoom = NoSetter

\* C5: callback/owner correspondence (stated for the states with no effect
\* pending): currentZoomSetShowZoom is non-null exactly when currentZoomedSrc is,
\* and then it is the setter of a mounted anchor whose src is currentZoomedSrc
\* and whose preview is shown.
C5_CallbackOwner ==
  Quiescent =>
    /\ (currentZoomSetShowZoom # NoSetter) <=> (currentZoomedSrc # NULL)
    /\ currentZoomSetShowZoom # NoSetter =>
         /\ setterLive
         /\ mounted[currentZoomSetShowZoom]
         /\ src[currentZoomSetShowZoom] = currentZoomedSrc
         /\ showZoom[currentZoomSetShowZoom]

\* C6: unmount closes the owner's preview: unmounting the anchor that owns the
\* active key leaves currentZoomedSrc different from its src; unmounting an
\* anchor whose key is not the active key leaves the coordinator state unchanged.
C6_UnmountHides ==
  [][\A a \in Anchors :
       /\ (Owner = a /\ Unmount(a)) => currentZoomedSrc' # src[a]
       /\ (mounted[a] /\ src[a] # currentZoomedSrc /\ Unmount(a))
            => UNCHANGED coordVars]_vars

\* C7: no leaked outside-click listener: when an anchor's preview is hidden (or
\* the anchor is unmounted) and none of its registration timers is pending, no
\* document click listener of it is registered.
C7_NoLeakedListener ==
  Quiescent =>
    /\ \A a \in Anchors : (a \notin Shown /\ timers[a] = 0) => listeners[a] = 0
    /\ staleTimers = 0 => staleListeners = 0

\* C8: idempotent re-show: a click on the anchor whose preview is the active one
\* leaves it shown and active (currentZoomedSrc its src, currentZoomSetShowZoom
\* its setter), leaves no effect to run, and invokes its close callback zero times.
C8_IdempotentReshow ==
  [][\A a \in Anchors :
       (Owner = a /\ Click(a))
       => /\ showZoom'[a]
          /\ currentZoomedSrc' = src'[a]
          /\ currentZoomedSrc' = currentZoomedSrc
          /\ currentZoomSetShowZoom' = a /\ setterLive'
          /\ closeCalls'[a] = 0
          /\ Quiescent']_vars

\* C8 witness: the active anchor was clicked again and its preview is shown
C8_Witness ==
  /\ ev.op = "Click" /\ ev.owner = ev.a
  /\ Quiescent
  /\ Owner = ev.a

\* the anchor rectangle lies inside the viewport and the measured preview fits
\* in the viewport with the margin on both sides
FitsViewport ==
  /\ imageRect.set
  /\ imageRect.top >= 0 /\ imageRect.top <= viewport.h
  /\ imageRect.left >= 0 /\ imageRect.left + imageRect.width <= viewport.w
  /\ zoomOffset.w > 0 /\ zoomOffset.w + 2 * Margin <= viewport.w
  /\ zoomOffset.h > 0 /\ zoomOffset.h + 2 * Margin <= viewport.h

\* C9: placement stays inside the viewport: top >= 0, left >= 0, top + preview
\* height <= viewport height, left + preview width <= viewport width, with the
\* measured size of the preview container.  The claim asserts it for every
\* input; this is its case of an anchor inside the viewport and a preview that
\* fits (positions in tenths of a px).
C9_InsideViewport ==
  (zoomPosition # NoPosition /\ FitsViewport)
  => /\ zoomPosition.top >= 0
     /\ zoomPosition.left >= 0
     /\ zoomPosition.top + 10 * zoomOffset.h <= 10 * viewport.h
     /\ zoomPosition.left + 10 * zoomOffset.w <= 10 * viewport.w

\* the preview size the claim names: the measured size of the container, or the
\* estimate the code uses before the preview has rendered (in tenths of a px)
previewExtent(offset) == IF offset = 0 THEN zoomExtent(0) ELSE 10 * offset

\* computePlacement as specified (spec section 4.2, margin 10), in tenths of a px
computePlacement(rect, width, height, window) ==
  LET top0 == 10 * rect.top
      left0 == 10 * (rect.left + rect.width) + 100
      top == IF top0 + height > 10 * window.h
             THEN Max(100, 10 * window.h - height - 100)
             ELSE top0
      left == IF left0 + width > 10 * window.w
              THEN IF 10 * rect.left > width + 100
                   THEN 10 * rect.left - width - 100
                   ELSE Max(100, 10 * window.w - width - 100)
              ELSE left0
  IN [top |-> top, left |-> left]

\* C10: placement algorithm equivalence: calculateZoomPosition returns what the
\* specified computePlacement returns for the anchor rectangle, the viewport and
\* the preview's measured size (the estimate before the preview has rendered).
C10_PlacementEquivalence ==
  (zoomPosition # NoPosition /\ imageRect.set)
  => zoomPosition = computePlacement(imageRect, previewExtent(zoomOffset.w),
                                     previewExtent(zoomOffset.h), viewport)

\* the image's natural size is known
KnownSize == imageSize.width > 0 /\ imageSize.height > 0

\* neither cap of lines 227-228 is below the base box
NoCap == /\ ViewportCapTenths * viewport.w >= 10 * BaseZoomSize
         /\ ViewportCapTenths * viewport.h >= 10 * BaseZoomSize

\* the result has the aspect ratio of the natural size, a landscape image keeps
\* the base width and any other the base height
AspectKept ==
  /\ zoomDimensions.width.n * zoomDimensions.height.d * imageSize.height
       = zoomDimensions.height.n * zoomDimensions.width.d * imageSize.width
  /\ imageSize.width > imageSize.height => RatEq(zoomDimensions.width, Rat(BaseZoomSize, 1))
  /\ imageSize.width <= imageSize.height => RatEq(zoomDimensions.height, Rat(BaseZoomSize, 1))

\* the result fits in the base box and in 0.8 of the viewport
DimensionsBounded ==
  /\ RatLe(zoomDimensions.width, Rat(BaseZoomSize, 1))
  /\ RatLe(zoomDimensions.height, Rat(BaseZoomSize, 1))
  /\ RatLe(zoomDimensions.width, Rat(ViewportCapTenths * viewport.w, 10))
  /\ RatLe(zoomDimensions.height, Rat(ViewportCapTenths * viewport.h, 10))

\* C11 as claimed: for every known natural size calculateZoomDimensions returns
\* a size within the 400 x 400 box with the aspect ratio of the natural size
\* (landscape keeps the width 400, portrait the height 400), both dimensions at
\* most 0.8 of the viewport's.
C11_AspectAlways ==
  (zoomDimensions # NoDimensions /\ KnownSize) => (DimensionsBounded /\ AspectKept)

\* C11 as amended: for every known natural size the result is within the
\* 400 x 400 box and within 0.8 of the viewport in both dimensions; it has the
\* aspect ratio of the natural size (landscape width 400, portrait height 400)
\* when 0.8 of the viewport is at least 400 in both dimensions.
C11_AspectUncapped ==
  (zoomDimensions # NoDimensions /\ KnownSize)
  => /\ DimensionsBounded
     /\ NoCap => AspectKept

\* C11 witness: an 800 x 400 image in a 1000 x 800 viewport got 400 x 200
C11_Witness ==
  /\ imageSize = [width |-> 800, height |-> 400]
  /\ viewport = [w |-> 1000, h |-> 800]
  /\ RatEq(zoomDimensions.width, Rat(400, 1))
  /\ RatEq(zoomDimensions.height, Rat(200, 1))

\* C12: graceful defaults: with the natural size unknown or malformed (width or
\* height 0) calculateZoomDimensions returns the base square 400 x 400 unscaled;
\* with the anchor rectangle unavailable calculateZoomPosition returns
\* {top: 0, left: 0}; the coordinator state is left as it was (null, null).
C12_GracefulDefaults ==
  /\ (zoomDimensions # NoDimensions /\ ~KnownSize)
       => zoomDimensions = [width |-> Rat(BaseZoomSize, 1), height |-> Rat(BaseZoomSize, 1)]
  /\ (zoomPosition # NoPosition /\ ~imageRect.set)
       => zoomPosition = [top |-> 0, left |-> 0]
  /\ zoomPosition # NoPosition
       => (currentZoomedSrc = NULL /\ currentZoomSetShowZoom = NoSetter)

\* C12 witness: a malformed natural size and no anchor rectangle, in a viewport
\* whose caps are below the base square, gave the defaults
C12_Witness ==
  /\ imageSize.width = 0 /\ imageSize.height > 0
  /\ ~imageRect.set
  /\ ViewportCapTenths * viewport.w < 10 * BaseZoomSize
  /\ zoomDimensions = [width |-> Rat(BaseZoomSize, 1), height |-> Rat(BaseZoomSize, 1)]
  /\ zoomPosition = [top |-> 0, left |-> 0]

\* C13: the coordinator state is mutated only by the zoom-state effect: every
\* step that changes currentZoomedSrc or currentZoomSetShowZoom is a run of the
\* effects; the click handler and the outside-click listener leave both unchanged.
C13_OnlyEffectMutates ==
  [][(coordVars' # coordVars) => \E a \in Anchors : RunEffects(a)]_vars

\* C14: visibility agrees with the coordinator.  The claim asserts that, with no
\* effect pending, a mounted anchor is shown if and only if currentZoomedSrc is
\* its src; this is its "in particular": no preview is shown while
\* currentZoomedSrc is null or names a different key.
C14_VisibleIsActive ==
  Quiescent => \A a \in Shown : currentZoomedSrc = src[a]

\* C15: outside click closes: after a click outside every anchor and preview,
\* made when no registration timer was pending, and once the effects have run,
\* no preview is shown, however it came to be open.  (No timer or listener
\* exists now, so none was pending at the click: a timer ends only by
\* registering a listener, and a listener only by an outside click.)
C15_OutsideClickCloses ==
  (Quiescent /\ ev.op = "OutsideClick" /\ Outstanding = 0) => Shown = {}

\* C17: single overlay mount point: at most one portal root is ever created,
\* and every anchor whose mount effect has run holds that one element.
C17_SinglePortalRoot ==
  /\ portalsCreated <= 1
  /\ portalRootElement <=> portalsCreated = 1
  /\ \A a \in Anchors : portalRoot[a] => (portalRootElement /\ portalsCreated = 1)

\* C17 witness: every slot holds an anchor that received the portal root, one
\* of them after an unmount
C17_Witness ==
  /\ \A a \in Anchors : mounted[a] /\ portalRoot[a]
  /\ staleTimers > 0
  /\ portalsCreated = 1

\* C16: src change closes the open preview: after the src of an anchor whose
\* preview is open changed to a src that is not the active key, and once the
\* effects have run, that preview is hidden, currentZoomedSrc and
\* currentZoomSetShowZoom are null, and no other anchor's showZoom has changed.
C16_SrcChangeCloses ==
  (Quiescent /\ ev.op = "SrcChange" /\ ev.a \in ev.shown)
  => /\ ~showZoom[ev.a]
     /\ currentZoomedSrc = NULL
     /\ currentZoomSetShowZoom = NoSetter
     /\ \A b \in Anchors \ {ev.a} : showZoom[b] <=> b \in ev.shown

====
